---- MODULE Spec2Model ----
(***************************************************************************)
(* HexaMapper: the chunked, layered cell store (modules/chunk_engine.py),  *)
(* the coordinate mapper (modules/map_helpers.py), the undoable commands   *)
(* (modules/commands/*.py) and the history manager                         *)
(* (modules/history_manager.py).                                           *)
(*                                                                         *)
(* Python lists are modelled as sequences; a Python index i is position    *)
(* i + 1 of the sequence.  Layer objects live in objs, keyed by an object  *)
(* id, so that two references to one ChunkLayer are the same id.  Colors   *)
(* are RGBA 4-tuples in units of 1/255.  The layer name "Layer n" is       *)
(* modelled by the number n.  A Python exception ends the running call     *)
(* where it is raised, keeping the assignments made before it.             *)
(***************************************************************************)
EXTENDS Integers, Sequences, FiniteSets, TLC

\* ---------------------------------------------------------------- bounds
\* edge length of a chunk (config hex_map_engine.chunk_size, scaled down)
ChunkSize == 2
\* global coordinates used by the engine model: (i, i) for -1 <= i <= MaxCoord
MaxCoord == 0
\* number of ChunkLayer objects ever constructed
MaxObjs == 3
\* layers in the stack while the renderer's reads are explored
ViewLayers == 3
\* number of command objects ever constructed
MaxCmds == 2
\* coordinate mapper inputs: |x|, |y| <= MaxAbs and 1 <= chunk_size <= MaxChunkSize
MaxAbs == 5
MaxChunkSize == 4
\* layers of a map that is saved to a file
FileLayers == 2

\* ------------------------------------------------------------ constants
\* config hex_map_engine.data_dimensions
DataDims == 4
\* FileManager.VERSION
VERSION == 1

\* np.zeros(data_dimensions)
ZeroData == [k \in 1..DataDims |-> 0]
\* config hex_map_custom.default_cell_color = "#888888FF"
DefaultCellColor == <<136, 136, 136, 255>>
\* cell colors: opaque, half transparent, and alpha 0
Palette == { <<255, 0, 0, 255>>, <<0, 0, 255, 128>>, <<0, 255, 0, 0>> }
\* colors the draw tool is set to
ToolColors == { <<255, 0, 0, 255>>, <<0, 0, 255, 128>> }

GlobalCoords == { <<i, i>> : i \in (0 - 1)..MaxCoord }

\* ------------------------------------------------- Python list semantics
\* a // b for b > 0: floor division
TruncDiv(a, b) == IF a >= 0 THEN a \div b ELSE 0 - ((0 - a) \div b)
PyFloorDiv(a, b) == a \div b
\* a % b for b > 0: the result has the sign of b
PyMod(a, b) == a % b

\* list.insert(i, x): i is clamped to [0, len] after negative wrap-around
PyInsert(s, i, x) ==
    LET n == Len(s)
        j == IF i < 0 THEN (IF i + n < 0 THEN 0 ELSE i + n)
                      ELSE (IF i > n THEN n ELSE i)
    IN  SubSeq(s, 1, j) \o <<x>> \o SubSeq(s, j + 1, n)

\* s[i] and s.pop(i) raise IndexError outside [-len, len)
PyIndexOk(s, i) == (0 - Len(s)) <= i /\ i < Len(s)
PyPos(s, i) == IF i < 0 THEN i + Len(s) + 1 ELSE i + 1
PyGet(s, i) == s[PyPos(s, i)]
PyPopRest(s, i) == SubSeq(s, 1, PyPos(s, i) - 1) \o SubSeq(s, PyPos(s, i) + 1, Len(s))

\* list.remove(x): drops the first occurrence, ValueError when absent
PyContains(s, x) == \E k \in 1..Len(s) : s[k] = x
PyRemove(s, x) ==
    LET k == CHOOSE k \in 1..Len(s) : s[k] = x /\ \A j \in 1..(k - 1) : s[j] # x
    IN  SubSeq(s, 1, k - 1) \o SubSeq(s, k + 1, Len(s))

Reverse(s) == [k \in 1..Len(s) |-> s[Len(s) + 1 - k]]
SeqRange(s) == { s[k] : k \in 1..Len(s) }
\* list(a_set): every element once, in some order
ListsOf(S) == { q \in [1..Cardinality(S) -> S] : SeqRange(q) = S }

\* ---------------------------------------------------- coordinate mapper
global_coord_to_chunk_coord(g, cs) ==
    << PyFloorDiv(g[1], cs), PyFloorDiv(g[2], cs), PyMod(g[1], cs), PyMod(g[2], cs) >>

ChunkOf(g) ==
    LET r == global_coord_to_chunk_coord(g, ChunkSize) IN <<r[1], r[2]>>
LocalOf(g) ==
    LET r == global_coord_to_chunk_coord(g, ChunkSize) IN <<r[3], r[4]>>

LocalCoords == (0..(ChunkSize - 1)) \X (0..(ChunkSize - 1))
ChunkCoords == { ChunkOf(g) : g \in GlobalCoords }

\* ------------------------------------------------------------ ChunkLayer
\* ChunkLayer.__init__
NewLayer(desc) ==
    [ desc |-> desc, is_visible |-> TRUE, chunks |-> <<>>,
      modified_cells |-> {}, dirty_chunks |-> {} ]

\* np.zeros((chunk_size, chunk_size, data_dims)): the default color is read
\* from the config but not used
FreshChunk == [l \in LocalCoords |-> ZeroData]

CreateMarksDirty(L, cc) ==
    IF cc \in DOMAIN L.chunks THEN L
    ELSE [L EXCEPT !.chunks = (cc :> FreshChunk) @@ @, !.dirty_chunks = @ \cup {cc}]

_get_or_create_chunk(L, cc) ==
    IF cc \in DOMAIN L.chunks THEN L
    ELSE [L EXCEPT !.chunks = (cc :> FreshChunk) @@ @]

layer_set_cell_data(L, g, data) ==
    LET L1 == _get_or_create_chunk(L, ChunkOf(g))
    IN  [L1 EXCEPT !.chunks[ChunkOf(g)][LocalOf(g)] = data,
                   !.dirty_chunks = @ \cup {ChunkOf(g)},
                   !.modified_cells = @ \cup {g}]

DeleteUnguarded(L, g) ==
    LET L1 == _get_or_create_chunk(L, ChunkOf(g))
    IN  [L1 EXCEPT !.chunks[ChunkOf(g)][LocalOf(g)] = ZeroData,
                   !.dirty_chunks = @ \cup {ChunkOf(g)},
                   !.modified_cells = @ \ {g}]
layer_delete_cell_data(L, g) ==
    IF g \notin L.modified_cells THEN L
    ELSE LET L1 == _get_or_create_chunk(L, ChunkOf(g))
         IN  [L1 EXCEPT !.chunks[ChunkOf(g)][LocalOf(g)] = ZeroData,
                        !.dirty_chunks = @ \cup {ChunkOf(g)},
                        !.modified_cells = @ \ {g}]

\* get_cell_data / get_chunk_data: the layer after the (allocating) read
layer_touch_chunk(L, cc) == _get_or_create_chunk(L, cc)
\* the value the read returns
layer_get_cell_data(L, g) == _get_or_create_chunk(L, ChunkOf(g)).chunks[ChunkOf(g)][LocalOf(g)]
layer_get_chunk_data(L, cc) == _get_or_create_chunk(L, cc).chunks[cc]

\* ChunkLayer.get_and_clear_dirty_chunks: the layer afterwards
LayerKeepDirty(L) == L
layer_clear_dirty(L) == [L EXCEPT !.dirty_chunks = {}]

\* ChunkLayer.reset
ResetChunksOnly(L) == [L EXCEPT !.chunks = <<>>, !.dirty_chunks = {}]
layer_reset(L) == [L EXCEPT !.chunks = <<>>, !.dirty_chunks = {}, !.modified_cells = {}]

\* ----------------------------------------------------------- ChunkEngine
\* The engine is handled as one record E while a call runs:
\*   layers (list of object ids), active (active_layer_idx), name_cnt,
\*   dirty (ChunkEngine.dirty_chunks), objs (the ChunkLayer objects, by id)
\* A call's outcome is [e |-> engine afterwards, ok |-> FALSE iff it raised].
Done(E) == [e |-> E, ok |-> TRUE]
Raise(E) == [e |-> E, ok |-> FALSE]

\* ChunkLayer(config, desc): the new object's id is Len(objs) + 1
AllocLayer(E, desc) == [E EXCEPT !.objs = Append(@, NewLayer(desc))]
NewId(E) == Len(E.objs) + 1

\* the chunks of a layer's modified cells, as the repaint loops compute them
ModifiedChunks(L) == { ChunkOf(g) : g \in L.modified_cells }
MarkLayerDirty(E, lid) == [E EXCEPT !.dirty = @ \cup ModifiedChunks(E.objs[lid])]

\* ChunkEngine.__init__
NewEngine ==
    [ layers |-> <<1>>, active |-> 0, name_cnt |-> 1, dirty |-> {},
      objs |-> <<NewLayer(0)>> ]

\* ChunkEngine.reset
engine_reset(E) ==
    LET D  == UNION { ModifiedChunks(E.objs[E.layers[k]]) : k \in 1..Len(E.layers) }
        E1 == AllocLayer(E, 0)
    IN  [E1 EXCEPT !.dirty = @ \cup D, !.layers = <<NewId(E)>>,
                   !.name_cnt = 1, !.active = 0]

\* ChunkEngine.insert_layer() with the default arguments
insert_layer(E) ==
    LET E1 == AllocLayer(E, E.name_cnt)
    IN  [E1 EXCEPT !.name_cnt = @ + 1,
                   !.layers = PyInsert(@, E.active + 1, NewId(E)),
                   !.active = E.active + 1]

\* ChunkEngine.toggle_visibility(layer)
toggle_visibility(E, lid) ==
    MarkLayerDirty([E EXCEPT !.objs[lid].is_visible = ~@], lid)

\* ChunkEngine.get_active_layer / layers[active_layer_idx]
ActiveOk(E) == PyIndexOk(E.layers, E.active)
ActiveId(E) == PyGet(E.layers, E.active)

\* ChunkEngine.get_chunk_data(chunk_coord) without a layer: the merge of the
\* visible layers, bottom to top, by the mask alpha > 0
MaskLoose(d) == d[4] >= 0
Mask(d) == d[4] > 0
visible_layers(E) == SelectSeq(E.layers, LAMBDA lid : E.objs[lid].is_visible)

RECURSIVE MergeFrom(_, _, _, _, _)
MergeFrom(E, vis, i, cc, final) ==
    IF i > Len(vis) THEN final
    ELSE LET top == layer_get_chunk_data(E.objs[vis[i]], cc)
         IN  MergeFrom(E, vis, i + 1, cc,
                       [l \in LocalCoords |-> IF Mask(top[l]) THEN top[l] ELSE final[l]])

get_chunk_data(E, cc) ==
    LET vis == visible_layers(E)
    IN  IF vis = <<>> THEN [l \in LocalCoords |-> DefaultCellColor]
        ELSE MergeFrom(E, vis, 2, cc, layer_get_chunk_data(E.objs[vis[1]], cc))

\* the read allocates the chunk in every visible layer
get_chunk_data_effect(E, cc) ==
    [E EXCEPT !.objs = [id \in DOMAIN @ |->
        IF PyContains(visible_layers(E), id) THEN layer_touch_chunk(@[id], cc) ELSE @[id]]]

\* ChunkEngine.get_and_clear_dirty_chunks: the set(dirty + dirty_extra) it
\* builds, and the engine afterwards; raises IndexError on layers[active]
clear_extra(E) == [E EXCEPT !.dirty = {}]
engine_dirty_final(E) == E.objs[ActiveId(E)].dirty_chunks \cup E.dirty
engine_clear_dirty(E) ==
    clear_extra([E EXCEPT !.objs[ActiveId(E)] = layer_clear_dirty(@)])

\* -------------------------------------------------------------- commands
\* One record shape for the five command classes; a field a class does not
\* have keeps its value from NoCmd.  Object references are ids, 0 is None.
NoCmd ==
    [ kind |-> "none", layer |-> 0, original_idx |-> 0,
      global_coords |-> <<>>, new_color |-> ZeroData,
      previous_color |-> <<>>, is_new |-> <<>>,
      removing_last_layer |-> FALSE, deleted_layer |-> 0, inserted_layer |-> 0,
      from_idx |-> 0, to_idx |-> 0 ]

CmdDone(E, c) == [e |-> E, c |-> c, ok |-> TRUE]
CmdRaise(E, c) == [e |-> E, c |-> c, ok |-> FALSE]

\* --- PaintCellCommand
\* __init__: get_active_layer() raises IndexError before anything is read;
\* get_cell_data allocates the chunk of every coordinate in the active layer
RECURSIVE TouchAll(_, _)
TouchAll(L, coords) ==
    IF coords = <<>> THEN L
    ELSE TouchAll(layer_touch_chunk(L, ChunkOf(Head(coords))), Tail(coords))

paint_init(E, coords, color) ==
    IF ~ActiveOk(E) THEN CmdRaise(E, NoCmd)
    ELSE LET lid == ActiveId(E)
             L   == E.objs[lid]
         IN  CmdDone([E EXCEPT !.objs[lid] = TouchAll(L, coords)],
                     [NoCmd EXCEPT !.kind = "paint", !.layer = lid,
                         !.global_coords = coords, !.new_color = color,
                         !.previous_color = [g \in SeqRange(coords) |-> layer_get_cell_data(L, g)],
                         !.is_new = [g \in SeqRange(coords) |-> g \notin L.modified_cells]])

RECURSIVE SetAll(_, _, _)
SetAll(L, coords, color) ==
    IF coords = <<>> THEN L
    ELSE SetAll(layer_set_cell_data(L, Head(coords), color), Tail(coords), color)

\* execute: set_cell_data without a layer writes to layers[active_layer_idx]
paint_target(E, c) == ActiveId(E)
paint_execute(E, c) ==
    IF c.global_coords = <<>> THEN CmdDone(E, c)
    ELSE IF ~ActiveOk(E) THEN CmdRaise(E, c)
    ELSE CmdDone([E EXCEPT !.objs[paint_target(E, c)] = SetAll(@, c.global_coords, c.new_color)], c)

\* undo: delete_cell_data / set_cell_data with layer=self.layer
RECURSIVE RestoreAll(_, _, _)
RestoreAll(L, coords, c) ==
    IF coords = <<>> THEN L
    ELSE LET g == Head(coords)
         IN  RestoreAll(IF c.is_new[g] THEN layer_delete_cell_data(L, g)
                        ELSE layer_set_cell_data(L, g, c.previous_color[g]),
                        Tail(coords), c)

paint_undo(E, c) ==
    CmdDone([E EXCEPT !.objs[c.layer] = RestoreAll(@, c.global_coords, c)], c)

\* --- EraseCellCommand
\* __init__: get_cell_data allocates the chunk of every coordinate in the
\* active layer; the is_new comprehension then reads
\* chunk_engine.modified_cells, an attribute ChunkEngine does not have, for
\* the first coordinate (AttributeError).  An empty list reads nothing.
erase_init(E, coords) ==
    IF coords = <<>>
    THEN CmdDone(E, [NoCmd EXCEPT !.kind = "erase", !.global_coords = coords])
    ELSE IF ~ActiveOk(E) THEN CmdRaise(E, NoCmd)
    ELSE CmdRaise([E EXCEPT !.objs[ActiveId(E)] = TouchAll(@, coords)], NoCmd)

\* execute: delete_cell_data without a layer, for the coordinates that were
\* modified
RECURSIVE EraseAll(_, _, _)
EraseAll(L, coords, c) ==
    IF coords = <<>> THEN L
    ELSE LET g == Head(coords)
         IN  EraseAll(IF c.is_new[g] THEN L ELSE layer_delete_cell_data(L, g),
                      Tail(coords), c)

erase_execute(E, c) ==
    IF \A k \in 1..Len(c.global_coords) : c.is_new[c.global_coords[k]] THEN CmdDone(E, c)
    ELSE IF ~ActiveOk(E) THEN CmdRaise(E, c)
    ELSE CmdDone([E EXCEPT !.objs[ActiveId(E)] = EraseAll(@, c.global_coords, c)], c)

\* undo: set_cell_data without a layer, for the coordinates that were
\* modified
RECURSIVE UneraseAll(_, _, _)
UneraseAll(L, coords, c) ==
    IF coords = <<>> THEN L
    ELSE LET g == Head(coords)
         IN  UneraseAll(IF c.is_new[g] THEN L
                        ELSE layer_set_cell_data(L, g, c.previous_color[g]),
                        Tail(coords), c)

erase_undo(E, c) ==
    IF \A k \in 1..Len(c.global_coords) : c.is_new[c.global_coords[k]] THEN CmdDone(E, c)
    ELSE IF ~ActiveOk(E) THEN CmdRaise(E, c)
    ELSE CmdDone([E EXCEPT !.objs[ActiveId(E)] = UneraseAll(@, c.global_coords, c)], c)

\* --- NewLayerCommand
newlayer_init(E) == CmdDone(E, [NoCmd EXCEPT !.kind = "new", !.original_idx = E.active])

newlayer_execute(E, c) ==
    LET idx == E.active + 1
        E1  == AllocLayer(E, E.name_cnt)
    IN  CmdDone([E1 EXCEPT !.name_cnt = @ + 1,
                           !.layers = PyInsert(@, idx, NewId(E)),
                           !.active = idx],
                [c EXCEPT !.layer = NewId(E)])

NewUndoKeepsIndex(E, c) ==
    IF ~PyContains(E.layers, c.layer) THEN CmdRaise(E, c)
    ELSE CmdDone([E EXCEPT !.layers = PyRemove(@, c.layer),
                           !.name_cnt = @ - 1], c)

newlayer_undo(E, c) ==
    IF ~PyContains(E.layers, c.layer) THEN CmdRaise(E, c)
    ELSE CmdDone([E EXCEPT !.layers = PyRemove(@, c.layer),
                           !.name_cnt = @ - 1,
                           !.active = c.original_idx], c)

\* --- DeleteLayerCommand
deletelayer_init(E) ==
    IF ~ActiveOk(E) THEN CmdRaise(E, NoCmd)
    ELSE CmdDone(E, [NoCmd EXCEPT !.kind = "delete",
                        !.removing_last_layer = (Len(E.layers) = 1),
                        !.deleted_layer = ActiveId(E),
                        !.original_idx = E.active])

ClampActive(i) == IF i - 1 > 0 THEN i - 1 ELSE 0
NoReplacement(E, c) == CmdDone(E, c)
delete_replace(E, c) ==
    IF ~c.removing_last_layer THEN CmdDone(E, c)
    ELSE LET E1 == AllocLayer(E, E.name_cnt)
         IN  CmdDone([E1 EXCEPT !.name_cnt = @ + 1, !.layers = Append(@, NewId(E))],
                     [c EXCEPT !.inserted_layer = NewId(E)])

deletelayer_execute(E, c) ==
    LET E1 == MarkLayerDirty(E, c.deleted_layer)
    IN  IF ~PyContains(E1.layers, c.deleted_layer) THEN CmdRaise(E1, c)
        ELSE delete_replace([E1 EXCEPT !.layers = PyRemove(@, c.deleted_layer),
                                       !.active = ClampActive(@)], c)

\* undo: `del self.inserted_layer` leaves the attribute unset (0 here; the
\* next execute assigns it before undo reads it again)
deletelayer_undo(E, c) ==
    IF c.removing_last_layer /\ ~PyContains(E.layers, c.inserted_layer)
    THEN CmdRaise(E, c)
    ELSE LET E1 == IF c.removing_last_layer
                   THEN [E EXCEPT !.layers = PyRemove(@, c.inserted_layer),
                                  !.name_cnt = @ - 1]
                   ELSE E
             E2 == [E1 EXCEPT !.layers = PyInsert(@, c.original_idx, c.deleted_layer),
                              !.active = c.original_idx]
         IN  CmdDone(MarkLayerDirty(E2, c.deleted_layer),
                     IF c.removing_last_layer THEN [c EXCEPT !.inserted_layer = 0] ELSE c)

\* --- ReorderLayerCommand
\* __init__ pops the layer from the list
reorder_init(E, from, to) ==
    IF ~PyIndexOk(E.layers, from) THEN CmdRaise(E, NoCmd)
    ELSE CmdDone([E EXCEPT !.layers = PyPopRest(@, from)],
                 [NoCmd EXCEPT !.kind = "reorder", !.layer = PyGet(E.layers, from),
                     !.from_idx = from, !.to_idx = to, !.original_idx = E.active])

\* execute: the elif branches read self.active_layer_idx, which the command
\* does not have: AttributeError once the first test is false
reorder_execute(E, c) ==
    LET E1 == [E EXCEPT !.layers = PyInsert(@, c.to_idx, c.layer)]
    IN  IF E1.active = c.from_idx
        THEN CmdDone(MarkLayerDirty([E1 EXCEPT !.active = c.to_idx], c.layer), c)
        ELSE CmdRaise(E1, c)

reorder_undo(E, c) ==
    IF ~PyIndexOk(E.layers, c.to_idx) THEN CmdRaise(E, c)
    ELSE LET E1 == [E EXCEPT !.layers = PyInsert(PyPopRest(@, c.to_idx), c.from_idx, c.layer)]
         IN  CmdDone([MarkLayerDirty(E1, c.layer) EXCEPT !.active = c.original_idx], c)

\* --- Command.execute / Command.undo dispatch
cmd_execute(E, c) ==
    CASE c.kind = "paint"   -> paint_execute(E, c)
      [] c.kind = "erase"   -> erase_execute(E, c)
      [] c.kind = "new"     -> newlayer_execute(E, c)
      [] c.kind = "delete"  -> deletelayer_execute(E, c)
      [] c.kind = "reorder" -> reorder_execute(E, c)

cmd_undo(E, c) ==
    CASE c.kind = "paint"   -> paint_undo(E, c)
      [] c.kind = "erase"   -> erase_undo(E, c)
      [] c.kind = "new"     -> newlayer_undo(E, c)
      [] c.kind = "delete"  -> deletelayer_undo(E, c)
      [] c.kind = "reorder" -> reorder_undo(E, c)

\* ------------------------------------------------------- HistoryManager
\* undo(): command.undo() for the commands of the block, last first; the
\* block was popped before, so an exception loses it
RECURSIVE UndoFrom(_, _, _)
UndoFrom(E, block, i) ==
    IF i = 0 THEN [e |-> E, block |-> block, ok |-> TRUE]
    ELSE LET r == cmd_undo(E, block[i])
         IN  IF r.ok THEN UndoFrom(r.e, [block EXCEPT ![i] = r.c], i - 1)
             ELSE [e |-> r.e, block |-> block, ok |-> FALSE]

UndoForward(E, block) == UndoFrom(E, Reverse(block), Len(block))
undo_block(E, block) == UndoFrom(E, block, Len(block))

\* redo(): command.execute() for the commands of the block, first first
RECURSIVE RedoFrom(_, _, _)
RedoFrom(E, block, i) ==
    IF i > Len(block) THEN [e |-> E, block |-> block, ok |-> TRUE]
    ELSE LET r == cmd_execute(E, block[i])
         IN  IF r.ok THEN RedoFrom(r.e, [block EXCEPT ![i] = r.c], i + 1)
             ELSE [e |-> r.e, block |-> block, ok |-> FALSE]

RedoBackward(E, block) == RedoFrom(E, Reverse(block), 1)
redo_block(E, block) == RedoFrom(E, block, 1)

\* the modified_cells of the layers that NewLayerCommand.undo removes from
\* the stack while undo() goes through the block, in the order of removal
RECURSIVE UndoRemoved(_, _, _)
UndoRemoved(E, block, i) ==
    IF i = 0 THEN <<>>
    ELSE LET c == block[i]
             r == cmd_undo(E, c)
         IN  IF ~r.ok THEN <<>>
             ELSE (IF c.kind = "new" THEN << E.objs[c.layer].modified_cells >> ELSE <<>>)
                    \o UndoRemoved(r.e, block, i - 1)

\* execute(command): the redo stack after a command that did not raise
clear_redo(rs) == <<>>

\* HistoryManager.undo / redo on (engine, undo_stack, redo_stack)
Hist(E, us, rs, ok) == [e |-> E, undo |-> us, redo |-> rs, ok |-> ok]

history_undo(E, us, rs) ==
    IF us = <<>> THEN Hist(E, us, rs, TRUE)
    ELSE LET r == undo_block(E, us[Len(us)])
         IN  Hist(r.e, SubSeq(us, 1, Len(us) - 1),
                  IF r.ok THEN Append(rs, r.block) ELSE rs, r.ok)

history_redo(E, us, rs) ==
    IF rs = <<>> THEN Hist(E, us, rs, TRUE)
    ELSE LET r == redo_block(E, rs[Len(rs)])
         IN  Hist(r.e, IF r.ok THEN Append(us, r.block) ELSE us,
                  SubSeq(rs, 1, Len(rs) - 1), r.ok)

\* ----------------------------------------------------------- FileManager
\* A file is the list of the fields written to it, each field the tuple of
\* numbers it packs: the magic bytes, the version ("I"), the layer count
\* ("i"), then per layer the cell count ("i") and one record ("iiffff") per
\* modified cell.  Cell data are float32 in the chunk arrays and in the
\* file, coordinates are taken inside the range of "i".  A read at the end
\* of the file returns no bytes (the empty tuple).
MAGIC_NUMBER == <<72, 77, 65, 80>>
CellRecord(g, data) == <<g[1], g[2]>> \o data

\* save_map: `orders` is the order in which each layer's modified_cells set
\* is iterated
LayerBlock(L, cells) ==
    << <<Len(cells)>> >> \o
    [k \in 1..Len(cells) |-> CellRecord(cells[k], layer_get_cell_data(L, cells[k]))]

RECURSIVE SaveLayers(_, _, _)
SaveLayers(E, orders, i) ==
    IF i > Len(E.layers) THEN <<>>
    ELSE LayerBlock(E.objs[E.layers[i]], orders[i]) \o SaveLayers(E, orders, i + 1)

save_map(E, orders) ==
    << MAGIC_NUMBER, <<VERSION>>, <<Len(E.layers)>> >> \o SaveLayers(E, orders, 1)

SaveOrders(E) ==
    { q \in [1..Len(E.layers) -> UNION { ListsOf(S) : S \in SUBSET GlobalCoords }] :
        \A k \in 1..Len(E.layers) : q[k] \in ListsOf(E.objs[E.layers[k]].modified_cells) }

\* get_layer_cell_data reads through _get_or_create_chunk
save_map_effect(E) ==
    [E EXCEPT !.objs = [id \in DOMAIN @ |->
        IF PyContains(E.layers, id) THEN TouchAll(@[id], CHOOSE q \in ListsOf(@[id].modified_cells) : TRUE)
        ELSE @[id]]]

\* load_map: ValueError (bad magic, bad version) is caught and logged, the
\* call returns; struct.error on an empty version field or on a cell record
\* that is cut short, and the bare `raise` after an empty read
\* (RuntimeError), are not caught
Field(f, p) == IF p <= Len(f) THEN f[p] ELSE <<>>

RECURSIVE LoadCells(_, _, _, _)
LoadCells(E, f, p, n) ==
    IF n <= 0 THEN [e |-> E, pos |-> p, ok |-> TRUE]
    ELSE IF Field(f, p) = <<>> THEN [e |-> E, pos |-> p, ok |-> FALSE]
    ELSE IF Len(Field(f, p)) < 2 + DataDims THEN [e |-> E, pos |-> p, ok |-> FALSE]
    ELSE LET r  == Field(f, p)
             g  == <<r[1], r[2]>>
             E1 == [E EXCEPT !.objs[ActiveId(E)] = layer_set_cell_data(@, g, SubSeq(r, 3, 2 + DataDims)),
                             !.dirty = @ \cup {ChunkOf(g)}]
         IN  LoadCells(E1, f, p + 1, n - 1)

RECURSIVE LoadLayers(_, _, _, _)
LoadLayers(E, f, p, n) ==
    IF n <= 0 THEN Done(E)
    ELSE IF Field(f, p) = <<>> THEN Raise(E)
    ELSE LET r == LoadCells(insert_layer(E), f, p + 1, Field(f, p)[1])
         IN  IF r.ok THEN LoadLayers(r.e, f, r.pos, n - 1) ELSE Raise(r.e)

\* load_map with the reset() moved in front of the header checks
LoadResetFirst(E, f) ==
    LET E1 == engine_reset(E)
    IN  IF Field(f, 1) # MAGIC_NUMBER THEN Done(E1)
        ELSE IF Field(f, 2) = <<>> THEN Raise(E1)
        ELSE IF Field(f, 2) # <<VERSION>> THEN Done(E1)
        ELSE IF Field(f, 3) = <<>> THEN Raise(E1)
        ELSE LoadLayers(E1, f, 4, Field(f, 3)[1])

load_map(E, f) ==
    IF Field(f, 1) # MAGIC_NUMBER THEN Done(E)
    ELSE IF Field(f, 2) = <<>> THEN Raise(E)
    ELSE IF Field(f, 2) # <<VERSION>> THEN Done(E)
    ELSE LET E1 == engine_reset(E)
         IN  IF Field(f, 3) = <<>> THEN Raise(E1)
             ELSE LoadLayers(E1, f, 4, Field(f, 3)[1])

\* ----------------------------------------------------------------- state
VARIABLES
    layers,            \* ChunkEngine.layers: list of ChunkLayer object ids
    active_layer_idx,  \* ChunkEngine.active_layer_idx
    name_cnt,          \* ChunkEngine.name_cnt
    dirty_chunks,      \* ChunkEngine.dirty_chunks
    objs,              \* every ChunkLayer constructed so far, by id
    undo_stack,        \* HistoryManager.undo_stack: list of command lists
    redo_stack,        \* HistoryManager.redo_stack
    command_buffer,    \* HistoryManager.command_buffer
    ret,               \* value returned by the last call that returns one
    last_op,           \* the last call: [op, raised]
    scn,               \* history: the action being followed and the map around it
    written,           \* history: chunks written since the last ChunkLayer drain
    n_cmds,            \* history: number of command objects constructed so far
    file,              \* the map file on disk: [fields, saved (history: the map when it was written)]
    mapper,            \* coordinate mapper: [g, cs, out]
    handler,           \* MapPanel2DEventHandler: [dragging, drag_button, buttons (the mouse buttons held down)]
    chunk_buffers      \* MapEngine2D.chunk_buffers: chunk coordinate -> the chunk data in its instance buffer

vars == << layers, active_layer_idx, name_cnt, dirty_chunks, objs,
           undo_stack, redo_stack, command_buffer, ret, last_op, scn, written, n_cmds, file, mapper,
           handler, chunk_buffers >>

engine_vars == << layers, active_layer_idx, name_cnt, dirty_chunks, objs >>
history_vars == << undo_stack, redo_stack, command_buffer >>

Eng ==
    [ layers |-> layers, active |-> active_layer_idx, name_cnt |-> name_cnt,
      dirty |-> dirty_chunks, objs |-> objs ]

SetEng(E) ==
    /\ layers' = E.layers
    /\ active_layer_idx' = E.active
    /\ name_cnt' = E.name_cnt
    /\ dirty_chunks' = E.dirty
    /\ objs' = E.objs

Op(name, raised) == [op |-> name, raised |-> raised]
NoRet == <<>>

\* what a reader of the map sees: every layer's cell values (a chunk that
\* is not allocated reads as a fresh one) and modified cells
CellsOf(L) == [g \in GlobalCoords |-> layer_get_cell_data(L, g)]
Snap(E) ==
    [ layers |-> E.layers, active |-> E.active, name_cnt |-> E.name_cnt,
      cells |-> [id \in DOMAIN E.objs |-> CellsOf(E.objs[id])],
      modified |-> [id \in DOMAIN E.objs |-> E.objs[id].modified_cells],
      dirty |-> E.dirty,
      layer_dirty |-> [id \in DOMAIN E.objs |-> E.objs[id].dirty_chunks] ]

FollowedKinds == {"paint", "erase", "delete", "new", "reorder", "reorder_invalid"}
NoScn == [kind |-> "none", stage |-> "none", n |-> 0, pre |-> <<>>, post |-> <<>>]

\* scn after a command of kind k went through execute(): an action made of
\* paint commands, or of one command of another followed kind, is followed
ScnExecute(k, before, after) ==
    IF k \notin FollowedKinds THEN NoScn
    ELSE IF command_buffer = <<>>
    THEN [kind |-> k, stage |-> "open", n |-> 1, pre |-> Snap(before), post |-> Snap(after)]
    ELSE IF scn.stage = "open" /\ scn.kind = "paint" /\ k = "paint"
    THEN [scn EXCEPT !.n = @ + 1, !.post = Snap(after)]
    ELSE NoScn

\* scn after the constructor or execute() of a command of kind k raised
ScnRaise(k, before, after) ==
    IF k \notin FollowedKinds THEN NoScn
    ELSE [kind |-> k, stage |-> "raised", n |-> 1, pre |-> Snap(before), post |-> Snap(after)]

ScnStep(from, to) == IF scn.stage = from THEN [scn EXCEPT !.stage = to] ELSE NoScn

\* ChunkLayer objects a block constructs when it is executed again
Allocs(block) ==
    Cardinality({ k \in 1..Len(block) :
        block[k].kind = "new" \/ (block[k].kind = "delete" /\ block[k].removing_last_layer) })

\* brush footprints of a stroke: one cell, then that cell and a neighbour in
\* another chunk
BrushLists == { << <<0, 0>> >>, << <<0 - 1, 0 - 1>>, <<0, 0>> >> }

\* MapPanel2DEventHandler.__init__, no mouse button held
NoHandler == [dragging |-> FALSE, drag_button |-> "None", buttons |-> {}]

\* no file was written yet
NoFile == [fields |-> <<>>, saved |-> <<>>]

InitEngine ==
    /\ layers = NewEngine.layers
    /\ active_layer_idx = NewEngine.active
    /\ name_cnt = NewEngine.name_cnt
    /\ dirty_chunks = NewEngine.dirty
    /\ objs = NewEngine.objs
    /\ undo_stack = <<>>
    /\ redo_stack = <<>>
    /\ command_buffer = <<>>
    /\ ret = NoRet
    /\ last_op = Op("init", FALSE)
    /\ scn = NoScn
    /\ written = {}
    /\ n_cmds = 0
    /\ file = NoFile
    /\ handler = NoHandler
    /\ chunk_buffers = <<>>

\* the stack is explored up to one entry more than there are objects
LayerCap == MaxObjs + 1

Init ==
    /\ InitEngine
    /\ mapper = <<>>

\* ------------------------------------------------ HistoryManager actions
\* a tool or panel constructs a command (r0) and hands it to execute()
HistExecute(k, r0) ==
    /\ n_cmds < MaxCmds
    /\ n_cmds' = n_cmds + 1
    /\ UNCHANGED << undo_stack, written, file, mapper, handler, chunk_buffers >>
    /\ ret' = NoRet
    /\ IF ~r0.ok
       THEN /\ SetEng(r0.e)
            /\ UNCHANGED << redo_stack, command_buffer >>
            /\ last_op' = Op("construct", TRUE)
            /\ scn' = ScnRaise(k, Eng, r0.e)
       ELSE LET r == cmd_execute(r0.e, r0.c)
            IN  /\ SetEng(r.e)
                /\ IF r.ok
                   THEN /\ command_buffer' = Append(command_buffer, r.c)
                        /\ redo_stack' = clear_redo(redo_stack)
                        /\ scn' = ScnExecute(k, Eng, r.e)
                   ELSE /\ UNCHANGED << redo_stack, command_buffer >>
                        /\ scn' = ScnRaise(k, Eng, r.e)
                /\ last_op' = Op("execute", ~r.ok)
    /\ Len(layers') <= LayerCap

ExecPaint ==
    \E coords \in BrushLists, color \in ToolColors :
        HistExecute("paint", paint_init(Eng, coords, color))

\* the eraser's footprint: a brush footprint, or no cell at all
EraseLists == BrushLists \cup { <<>> }

ExecErase ==
    \E coords \in EraseLists :
        HistExecute("erase", erase_init(Eng, coords))

ExecNewLayer ==
    /\ Len(objs) < MaxObjs
    /\ HistExecute("new", newlayer_init(Eng))

ExecDeleteLayer ==
    /\ Len(objs) < MaxObjs
    /\ HistExecute("delete", deletelayer_init(Eng))

ExecReorderLayer ==
    \E from \in 0..(Len(layers) - 1), to \in 0..(Len(layers) - 1) :
        /\ from # to
        /\ HistExecute("reorder", reorder_init(Eng, from, to))

\* a reorder the spec calls invalid: an index one past the end, or
\* from_index = to_index
ExecReorderInvalid ==
    \E from \in 0..Len(layers), to \in 0..Len(layers) :
        /\ from = to \/ from = Len(layers) \/ to = Len(layers)
        /\ HistExecute("reorder_invalid", reorder_init(Eng, from, to))

FinishAction ==
    /\ IF command_buffer # <<>>
       THEN /\ undo_stack' = Append(undo_stack, command_buffer)
            /\ command_buffer' = <<>>
       ELSE UNCHANGED << undo_stack, command_buffer >>
    /\ UNCHANGED << engine_vars, redo_stack, written, n_cmds, file, mapper, handler, chunk_buffers >>
    /\ ret' = NoRet
    /\ last_op' = Op("finish_action", FALSE)
    /\ scn' = ScnStep("open", "finished")

Undo ==
    LET h == history_undo(Eng, undo_stack, redo_stack)
    IN  /\ Len(h.e.layers) <= LayerCap
        /\ SetEng(h.e)
        /\ undo_stack' = h.undo
        /\ redo_stack' = h.redo
        /\ UNCHANGED << command_buffer, written, n_cmds, file, mapper, handler, chunk_buffers >>
        /\ ret' = NoRet
        /\ last_op' = Op("undo", ~h.ok)
        /\ scn' = IF h.ok /\ undo_stack # <<>> THEN ScnStep("finished", "undone") ELSE NoScn

Redo ==
    LET h == history_redo(Eng, undo_stack, redo_stack)
    IN  /\ redo_stack # <<>> => Len(objs) + Allocs(redo_stack[Len(redo_stack)]) <= MaxObjs
        /\ Len(h.e.layers) <= LayerCap
        /\ SetEng(h.e)
        /\ undo_stack' = h.undo
        /\ redo_stack' = h.redo
        /\ UNCHANGED << command_buffer, written, n_cmds, file, mapper, handler, chunk_buffers >>
        /\ ret' = NoRet
        /\ last_op' = Op("redo", ~h.ok)
        /\ scn' = IF h.ok /\ redo_stack # <<>> THEN ScnStep("undone", "redone") ELSE NoScn

\* ------------------------------------------------------ MapEngine2D actions
\* the chunks in view
VisibleChunks == ChunkCoords

\* _update_chunk_instance_buffer for the chunks of S: the engine after the
\* get_chunk_data reads
RECURSIVE RenderReads(_, _)
RenderReads(E, S) ==
    IF S = {} THEN E
    ELSE LET cc == CHOOSE c \in S : TRUE
         IN  RenderReads(get_chunk_data_effect(E, cc), S \ {cc})

\* update_and_render_chunks: the dirty chunks get their buffer rewritten,
\* render_scene creates the buffer of a chunk in view that has none
UpdateAndRenderChunks ==
    /\ UNCHANGED << history_vars, written, n_cmds, file, mapper, handler >>
    /\ scn' = NoScn
    /\ ret' = NoRet
    /\ IF Len(layers) # 0 /\ ~ActiveOk(Eng)
       THEN /\ UNCHANGED << engine_vars, chunk_buffers >>
            /\ last_op' = Op("update_and_render_chunks", TRUE)
       ELSE LET dirty == IF Len(layers) = 0 THEN {} ELSE engine_dirty_final(Eng)
                E1    == IF Len(layers) = 0 THEN Eng ELSE engine_clear_dirty(Eng)
                fresh == dirty \cup (VisibleChunks \ DOMAIN chunk_buffers)
            IN  /\ chunk_buffers' =
                       [cc \in DOMAIN chunk_buffers \cup fresh |->
                           IF cc \in fresh THEN get_chunk_data(E1, cc) ELSE chunk_buffers[cc]]
                /\ SetEng(RenderReads(E1, fresh))
                /\ last_op' = Op("update_and_render_chunks", FALSE)

\* ------------------------------------------- MapPanel2DEventHandler actions
MouseButtons == {"Left", "Right", "Middle"}

\* HistoryManager.finish_action on (undo_stack, command_buffer)
finish_action(us, buf) ==
    IF buf # <<>> THEN [undo |-> Append(us, buf), buffer |-> <<>>]
    ELSE [undo |-> us, buffer |-> buf]

\* MouseButtonPress of button b: event.buttons() holds b and the buttons
\* already down; the draw tool's mouse_press does nothing
MousePress ==
    \E b \in MouseButtons \ handler.buttons :
        LET held == handler.buttons \cup {b}
        IN  /\ handler' = [ dragging |-> TRUE,
                            drag_button |-> IF "Left" \in held THEN "Left"
                                            ELSE IF "Right" \in held THEN "Right"
                                            ELSE "Middle",
                            buttons |-> held ]
            /\ UNCHANGED << engine_vars, history_vars, written, n_cmds, file, mapper, chunk_buffers >>
            /\ ret' = NoRet
            /\ last_op' = Op("mouse_press", FALSE)
            /\ scn' = NoScn

\* MouseButtonRelease of a button that is down: the tool's mouse_release
\* (finish_action) is called when drag_button is "Right"
MouseRelease ==
    \E b \in handler.buttons :
        LET h == IF handler.drag_button = "Right"
                 THEN finish_action(undo_stack, command_buffer)
                 ELSE [undo |-> undo_stack, buffer |-> command_buffer]
        IN  /\ handler' = [ dragging |-> FALSE, drag_button |-> "None",
                            buttons |-> handler.buttons \ {b} ]
            /\ undo_stack' = h.undo
            /\ command_buffer' = h.buffer
            /\ UNCHANGED << engine_vars, redo_stack, written, n_cmds, file, mapper, chunk_buffers >>
            /\ ret' = NoRet
            /\ last_op' = Op("mouse_release", FALSE)
            /\ scn' = NoScn

\* MouseMove while the right button drags: DrawTool.mouse_move
MouseMoveDraw ==
    /\ handler.drag_button = "Right" /\ handler.dragging
    /\ ExecPaint

\* MouseMove otherwise: the view moves or nothing happens
MouseMoveOther ==
    /\ ~(handler.drag_button = "Right" /\ handler.dragging)
    /\ UNCHANGED << engine_vars, history_vars, written, n_cmds, file, mapper, handler, chunk_buffers >>
    /\ ret' = NoRet
    /\ last_op' = Op("mouse_move", FALSE)
    /\ scn' = NoScn

\* --------------------------------------------------- ChunkEngine actions
Reset ==
    /\ Len(objs) < MaxObjs
    /\ SetEng(engine_reset(Eng))
    /\ UNCHANGED << history_vars, written, n_cmds, file, mapper, handler, chunk_buffers >>
    /\ ret' = NoRet
    /\ last_op' = Op("reset", FALSE)
    /\ scn' = NoScn

InsertLayerUpTo(n) ==
    /\ Len(objs) < n
    /\ SetEng(insert_layer(Eng))
    /\ UNCHANGED << history_vars, written, n_cmds, file, mapper, handler, chunk_buffers >>
    /\ ret' = NoRet
    /\ last_op' = Op("insert_layer", FALSE)
    /\ scn' = NoScn

InsertLayer == InsertLayerUpTo(MaxObjs)

\* insert_layer() that may construct one more layer object
InsertNamedLayer == InsertLayerUpTo(MaxObjs + 1)

\* scn after the is_visible flag of layer lid was flipped: the chunks that
\* hold the layer's modified cells
ScnToggle(lid) ==
    [ kind |-> "toggle", stage |-> "flipped", n |-> 1,
      pre |-> [layer |-> lid, chunks |-> { ChunkOf(g) : g \in objs[lid].modified_cells }],
      post |-> <<>> ]

ToggleVisibility ==
    \E lid \in SeqRange(layers) :
        /\ SetEng(toggle_visibility(Eng, lid))
        /\ UNCHANGED << history_vars, written, n_cmds, file, mapper, handler, chunk_buffers >>
        /\ ret' = NoRet
        /\ last_op' = Op("toggle_visibility", FALSE)
        /\ scn' = ScnToggle(lid)

\* LayerEntry.toggle_visibility: the button of the layer panel's entry of a
\* layer of the stack
EntryToggleVisibility ==
    \E lid \in SeqRange(layers) :
        /\ objs' = [objs EXCEPT ![lid].is_visible = ~@]
        /\ UNCHANGED << layers, active_layer_idx, name_cnt, dirty_chunks >>
        /\ UNCHANGED << history_vars, written, n_cmds, file, mapper, handler, chunk_buffers >>
        /\ ret' = NoRet
        /\ last_op' = Op("entry.toggle_visibility", FALSE)
        /\ scn' = ScnToggle(lid)

\* the cell the view paints and the chunk the renderer reads
ViewCoords == { <<0, 0>> }
ViewChunks == { ChunkOf(g) : g \in ViewCoords }

GetChunkData ==
    \E cc \in ViewChunks :
        /\ ret' = NoRet
        /\ SetEng(get_chunk_data_effect(Eng, cc))
        /\ UNCHANGED << history_vars, written, n_cmds, file, mapper, handler, chunk_buffers >>
        /\ last_op' = Op("get_chunk_data", FALSE)
        /\ scn' = NoScn

GetAndClearDirtyChunks ==
    /\ UNCHANGED << history_vars, written, n_cmds, file, mapper, handler, chunk_buffers >>
    /\ scn' = ScnStep("flipped", "drained")
    /\ IF Len(layers) = 0
       THEN /\ ret' = [dirty |-> <<>>, layer_dirty |-> {}, extra |-> dirty_chunks]
            /\ UNCHANGED engine_vars
            /\ last_op' = Op("get_and_clear_dirty_chunks", FALSE)
       ELSE IF ~ActiveOk(Eng)
       THEN /\ ret' = NoRet
            /\ UNCHANGED engine_vars
            /\ last_op' = Op("get_and_clear_dirty_chunks", TRUE)
       ELSE \E final \in ListsOf(engine_dirty_final(Eng)) :
            /\ ret' = [dirty |-> final,
                       layer_dirty |-> objs[ActiveId(Eng)].dirty_chunks,
                       extra |-> dirty_chunks]
            /\ SetEng(engine_clear_dirty(Eng))
            /\ last_op' = Op("get_and_clear_dirty_chunks", FALSE)

\* ChunkEngine.get_cell_data(global_coord) on the active layer
EngineGetCellData ==
    \E g \in GlobalCoords :
        /\ ActiveOk(Eng)
        /\ ret' = [data |-> layer_get_cell_data(objs[ActiveId(Eng)], g)]
        /\ SetEng([Eng EXCEPT !.objs[ActiveId(Eng)] = layer_touch_chunk(@, ChunkOf(g))])
        /\ UNCHANGED << history_vars, written, n_cmds, file, mapper, handler, chunk_buffers >>
        /\ last_op' = Op("get_cell_data", FALSE)
        /\ scn' = NoScn

\* ChunkEngine.get_chunk_data(chunk_coord, layer) with a layer of the stack
GetLayerChunkData ==
    \E cc \in ChunkCoords, lid \in SeqRange(layers) :
        /\ ret' = [data |-> layer_get_chunk_data(objs[lid], cc)]
        /\ SetEng([Eng EXCEPT !.objs[lid] = layer_touch_chunk(@, cc)])
        /\ UNCHANGED << history_vars, written, n_cmds, file, mapper, handler, chunk_buffers >>
        /\ last_op' = Op("get_layer_chunk_data", FALSE)
        /\ scn' = NoScn

\* ChunkEngine.set_cell_data / delete_cell_data on the active layer
SetCellOn(coords, colors) ==
    \E g \in coords, color \in colors :
        /\ ActiveOk(Eng)
        /\ SetEng([Eng EXCEPT !.objs[ActiveId(Eng)] = layer_set_cell_data(@, g, color)])
        /\ UNCHANGED << history_vars, written, n_cmds, file, mapper, handler, chunk_buffers >>
        /\ ret' = NoRet
        /\ last_op' = Op("set_cell_data", FALSE)
        /\ scn' = NoScn

EngineDeleteCellData ==
    \E g \in ViewCoords :
        /\ ActiveOk(Eng)
        /\ SetEng([Eng EXCEPT !.objs[ActiveId(Eng)] = layer_delete_cell_data(@, g)])
        /\ UNCHANGED << history_vars, written, n_cmds, file, mapper, handler, chunk_buffers >>
        /\ ret' = NoRet
        /\ last_op' = Op("delete_cell_data", FALSE)
        /\ scn' = NoScn

EngineSetCellData == SetCellOn(ViewCoords, Palette)
PaintOneCell == SetCellOn(ViewCoords, { <<255, 0, 0, 255>> })

\* insert_layer() while at most ViewLayers layers exist
InsertViewLayer ==
    /\ Len(objs) < ViewLayers
    /\ InsertLayer

\* --------------------------------------------------- FileManager actions
FileSetCellData == SetCellOn(GlobalCoords, ToolColors)

InsertFileLayer ==
    /\ Len(layers) < FileLayers
    /\ InsertLayer

SaveMap ==
    \E orders \in SaveOrders(Eng) :
        /\ file' = [fields |-> save_map(Eng, orders), saved |-> Snap(Eng)]
        /\ SetEng(save_map_effect(Eng))
        /\ UNCHANGED << history_vars, written, n_cmds, mapper, handler, chunk_buffers >>
        /\ ret' = NoRet
        /\ last_op' = Op("save_map", FALSE)
        /\ scn' = NoScn

\* load_map of the file into a newly constructed engine
LoadMap ==
    /\ file.fields # <<>>
    /\ Field(file.fields, 3)[1] <= FileLayers
    /\ LET r == load_map(NewEngine, file.fields)
       IN  /\ SetEng(r.e)
           /\ last_op' = Op("load_map", ~r.ok)
    /\ UNCHANGED << history_vars, written, n_cmds, file, mapper, handler, chunk_buffers >>
    /\ ret' = NoRet
    /\ scn' = NoScn

\* files that are not a valid map: a saved file F with another magic
\* number, with another version, cut after p whole fields, or cut inside
\* the cell record that follows them
DamagedFiles(F) ==
    { [kind |-> "bad_magic", cut |-> 0, fields |-> [F EXCEPT ![1] = <<72, 77, 65, 81>>]],
      [kind |-> "bad_version", cut |-> 0, fields |-> [F EXCEPT ![2] = <<VERSION + 1>>]] }
    \cup { [kind |-> "truncated", cut |-> p, fields |-> SubSeq(F, 1, p)] : p \in 1..(Len(F) - 1) }
    \cup { [kind |-> "truncated", cut |-> p,
            fields |-> Append(SubSeq(F, 1, p), SubSeq(F[p + 1], 1, 2))] :
                p \in { q \in 3..(Len(F) - 1) : Len(F[q + 1]) = 2 + DataDims } }

\* scn after load_map of a damaged file d into the engine E: the map before
\* the call (pre) and the map a reset() of it leaves (post)
ScnLoad(d, E) ==
    [ kind |-> "load", stage |-> d.kind, n |-> d.cut,
      pre |-> Snap(E), post |-> Snap(engine_reset(E)) ]

\* load_map of a damaged copy of the saved file into the engine that holds
\* the map (an engine that was not reset before)
LoadDamaged ==
    /\ file.fields # <<>>
    /\ Len(objs) = Len(layers)
    /\ \E d \in DamagedFiles(file.fields) :
        LET r == load_map(Eng, d.fields)
        IN  /\ SetEng(r.e)
            /\ last_op' = Op("load_map", ~r.ok)
            /\ scn' = ScnLoad(d, Eng)
    /\ UNCHANGED << history_vars, written, n_cmds, file, mapper, handler, chunk_buffers >>
    /\ ret' = NoRet

\* ------------------------------------------------------- specifications
\* painting through the history manager
NextHistory ==
    \/ ExecPaint
    \/ ExecDeleteLayer
    \/ FinishAction
    \/ Undo
    \/ Redo

SpecHistory == Init /\ [][NextHistory]_vars

\* the layer stack and its commands
NextLayers ==
    \/ ExecNewLayer
    \/ ExecDeleteLayer
    \/ ExecReorderLayer
    \/ FinishAction
    \/ Undo
    \/ Redo
    \/ Reset
    \/ InsertLayer
    \/ GetAndClearDirtyChunks

SpecLayers == Init /\ [][NextLayers]_vars

\* what the renderer reads
NextView ==
    \/ EngineSetCellData
    \/ EngineDeleteCellData
    \/ InsertViewLayer
    \/ ToggleVisibility
    \/ GetChunkData

SpecView == Init /\ [][NextView]_vars

\* painting and adding layers through the history
NextEdit ==
    \/ ExecPaint
    \/ ExecNewLayer
    \/ FinishAction
    \/ Undo
    \/ Redo

SpecEdit == Init /\ [][NextEdit]_vars

\* painting and erasing through the history
NextErase ==
    \/ ExecPaint
    \/ ExecErase
    \/ FinishAction
    \/ Undo
    \/ Redo

SpecErase == Init /\ [][NextErase]_vars

\* loading files that are not valid maps over a painted map
NextLoad ==
    \/ PaintOneCell
    \/ InsertFileLayer
    \/ SaveMap
    \/ LoadDamaged

SpecLoad == Init /\ [][NextLoad]_vars

\* mouse gestures with the draw tool active
NextGesture ==
    \/ MousePress
    \/ MouseRelease
    \/ MouseMoveDraw
    \/ MouseMoveOther

SpecGesture == Init /\ [][NextGesture]_vars

\* reading cells and chunks of a painted map
NextRead ==
    \/ PaintOneCell
    \/ InsertFileLayer
    \/ ToggleVisibility
    \/ EngineGetCellData
    \/ GetLayerChunkData
    \/ GetChunkData

SpecRead == Init /\ [][NextRead]_vars

\* rendering a map edited through the history
NextRender ==
    \/ ExecPaint
    \/ ExecNewLayer
    \/ InsertLayer
    \/ FinishAction
    \/ Undo
    \/ Redo
    \/ UpdateAndRenderChunks

SpecRender == Init /\ [][NextRender]_vars

\* naming layers: insert_layer() and the layer commands
NextNames ==
    \/ ExecNewLayer
    \/ ExecDeleteLayer
    \/ InsertNamedLayer
    \/ FinishAction
    \/ Undo
    \/ Redo

SpecNames == Init /\ [][NextNames]_vars

\* the undo and redo shortcuts during mouse gestures with the draw tool
NextShortcut ==
    \/ MousePress
    \/ MouseRelease
    \/ MouseMoveDraw
    \/ MouseMoveOther
    \/ Undo
    \/ Redo

SpecShortcut == Init /\ [][NextShortcut]_vars

\* showing and hiding layers of a painted map
NextToggle ==
    \/ FileSetCellData
    \/ InsertFileLayer
    \/ ToggleVisibility
    \/ EntryToggleVisibility
    \/ GetAndClearDirtyChunks

SpecToggle == Init /\ [][NextToggle]_vars

\* reordering layers of a painted map
NextReorder ==
    \/ PaintOneCell
    \/ InsertLayer
    \/ ExecReorderLayer
    \/ ExecReorderInvalid
    \/ FinishAction
    \/ Undo
    \/ Redo

SpecReorder == Init /\ [][NextReorder]_vars

\* saving the map and loading the file
NextFile ==
    \/ FileSetCellData
    \/ InsertFileLayer
    \/ SaveMap
    \/ LoadMap

SpecFile == Init /\ [][NextFile]_vars

\* a single ChunkLayer (the first layer of the engine) used directly
TheLayer == objs[1]
SetLayer(L) == objs' = [objs EXCEPT ![1] = L]
LayerFrame == UNCHANGED << layers, active_layer_idx, name_cnt, dirty_chunks, history_vars, n_cmds, file, mapper, handler, chunk_buffers >>

LayerSetCellData ==
    \E g \in GlobalCoords, color \in Palette :
        /\ SetLayer(layer_set_cell_data(TheLayer, g, color))
        /\ written' = written \cup {ChunkOf(g)}
        /\ ret' = NoRet
        /\ last_op' = Op("layer.set_cell_data", FALSE)
        /\ scn' = NoScn
        /\ LayerFrame

LayerDeleteCellData ==
    \E g \in GlobalCoords :
        /\ SetLayer(layer_delete_cell_data(TheLayer, g))
        /\ written' = IF g \in TheLayer.modified_cells THEN written \cup {ChunkOf(g)} ELSE written
        /\ ret' = NoRet
        /\ last_op' = Op("layer.delete_cell_data", FALSE)
        /\ scn' = [NoScn EXCEPT !.kind = "layer.delete_cell_data", !.pre = [coord |-> g, layer |-> TheLayer]]
        /\ LayerFrame

LayerGetCellData ==
    \E g \in GlobalCoords :
        /\ SetLayer(layer_touch_chunk(TheLayer, ChunkOf(g)))
        /\ ret' = [data |-> layer_get_cell_data(TheLayer, g)]
        /\ last_op' = Op("layer.get_cell_data", FALSE)
        /\ scn' = NoScn
        /\ UNCHANGED written
        /\ LayerFrame

LayerGetChunkData ==
    \E cc \in ChunkCoords :
        /\ SetLayer(layer_touch_chunk(TheLayer, cc))
        /\ ret' = [data |-> layer_get_chunk_data(TheLayer, cc)]
        /\ last_op' = Op("layer.get_chunk_data", FALSE)
        /\ scn' = NoScn
        /\ UNCHANGED written
        /\ LayerFrame

LayerGetAndClearDirtyChunks ==
    \E dirty \in ListsOf(TheLayer.dirty_chunks) :
        /\ SetLayer(layer_clear_dirty(TheLayer))
        /\ ret' = [dirty |-> dirty, written |-> written]
        /\ written' = {}
        /\ last_op' = Op("layer.get_and_clear_dirty_chunks", FALSE)
        /\ scn' = NoScn
        /\ LayerFrame

LayerReset ==
    /\ SetLayer(layer_reset(TheLayer))
    /\ written' = {}
    /\ ret' = NoRet
    /\ last_op' = Op("layer.reset", FALSE)
    /\ scn' = NoScn
    /\ LayerFrame

NextLayer ==
    \/ LayerSetCellData
    \/ LayerDeleteCellData
    \/ LayerGetCellData
    \/ LayerGetChunkData
    \/ LayerGetAndClearDirtyChunks
    \/ LayerReset

SpecLayer == Init /\ [][NextLayer]_vars

\* the coordinate mapper applied to one input
InitCoord ==
    /\ InitEngine
    /\ mapper \in { [g |-> <<x, y>>, cs |-> cs, out |-> <<>>] :
                        x \in (0 - MaxAbs)..MaxAbs, y \in (0 - MaxAbs)..MaxAbs,
                        cs \in 1..MaxChunkSize }

MapCoord ==
    /\ mapper.out = <<>>
    /\ mapper' = [mapper EXCEPT !.out = global_coord_to_chunk_coord(mapper.g, mapper.cs)]
    /\ last_op' = Op("global_coord_to_chunk_coord", FALSE)
    /\ UNCHANGED << engine_vars, history_vars, ret, scn, written, n_cmds, file, handler, chunk_buffers >>

NextCoord == MapCoord

SpecCoord == InitCoord /\ [][NextCoord]_vars

\* ---------------------------------------------------------------- claims
MapNow == Snap(Eng)
SameMap(a, b) == a.cells = b.cells /\ a.modified = b.modified

\* C1  History grouping: after k >= 1 paint commands went through execute
\* and one finish_action, one undo() puts every cell of the map (values and
\* modified_cells) back to what it was before the first command, and the
\* redo() that follows leaves the map as it was before the undo.
C1_HistoryGrouping ==
    /\ (scn.kind = "paint" /\ scn.stage = "undone") => SameMap(MapNow, scn.pre)
    /\ (scn.kind = "paint" /\ scn.stage = "redone") => SameMap(MapNow, scn.post)

\* two commands of one stroke were undone and redone, and they changed the map
C1_Witness ==
    /\ scn.kind = "paint" /\ scn.stage = "redone" /\ scn.n >= 2
    /\ ~SameMap(scn.pre, scn.post)
    /\ \E g \in GlobalCoords : \A k \in 1..2 :
           g \in SeqRange(undo_stack[Len(undo_stack)][k].global_coords)

\* C2  Right after execute() the redo stack is empty, and a redo() called
\* then changes neither the stacks nor the map.
C2_ExecuteClearsRedo ==
    last_op.op = "execute" =>
        /\ redo_stack = <<>>
        /\ history_redo(Eng, undo_stack, redo_stack) = Hist(Eng, undo_stack, redo_stack, TRUE)

\* C3  Paint/undo round trip: after one paint command is executed, finished
\* and undone, a coordinate that was not modified before is not in
\* modified_cells and holds the default color; a coordinate that was
\* modified holds its prior color and is still in modified_cells.
C3_PaintUndoRoundTrip ==
    (scn.kind = "paint" /\ scn.stage = "undone" /\ scn.n = 1) =>
        LET c == redo_stack[Len(redo_stack)][1]
            L == objs[c.layer]
        IN  \A g \in SeqRange(c.global_coords) :
                IF g \notin scn.pre.modified[c.layer]
                THEN g \notin L.modified_cells /\ layer_get_cell_data(L, g) = DefaultCellColor
                ELSE g \in L.modified_cells /\ layer_get_cell_data(L, g) = scn.pre.cells[c.layer][g]

\* C4  Layer-stack invariant: the stack holds at least one layer and
\* 0 <= active_layer_idx < len(layers).
C4_LayerStackInvariant ==
    /\ Len(layers) >= 1
    /\ 0 <= active_layer_idx
    /\ active_layer_idx < Len(layers)

\* C5  Deleting the only layer leaves exactly one layer, a new one without
\* modified cells; undoing the deletion leaves exactly the original layer
\* object, with its original cells and modified_cells, and it is active.
C5_DeleteLastLayer ==
    (scn.kind = "delete" /\ Len(scn.pre.layers) = 1) =>
        /\ scn.stage \in {"open", "finished"} =>
              /\ Len(layers) = 1
              /\ layers[1] \notin DOMAIN scn.pre.cells
              /\ objs[layers[1]].modified_cells = {}
              /\ CellsOf(objs[layers[1]]) = [g \in GlobalCoords |-> ZeroData]
        /\ scn.stage = "undone" =>
              /\ layers = scn.pre.layers
              /\ objs[layers[1]].modified_cells = scn.pre.modified[layers[1]]
              /\ CellsOf(objs[layers[1]]) = scn.pre.cells[layers[1]]
              /\ active_layer_idx = 0

\* the deleted only layer had painted cells and came back by undo
C5_Witness ==
    /\ scn.kind = "delete" /\ scn.stage = "undone" /\ Len(scn.pre.layers) = 1
    /\ scn.pre.modified[scn.pre.layers[1]] # {}
    /\ layers = scn.pre.layers

\* C6  Compositing: with at least one visible layer, every cell of
\* get_chunk_data(chunk) is the data of the highest visible layer above the
\* bottommost visible one whose alpha there is > 0, and the bottommost
\* visible layer's data when there is none; hidden layers do not count.
LayerCell(k, cc, l) == layer_get_chunk_data(objs[layers[k]], cc)[l]
C6_Compositing ==
    LET P == { k \in 1..Len(layers) : objs[layers[k]].is_visible }
    IN  P # {} =>
        \A cc \in ViewChunks, l \in LocalCoords :
            LET bottom == CHOOSE k \in P : \A j \in P : k <= j
                above  == { k \in P : k > bottom /\ LayerCell(k, cc, l)[4] > 0 }
                top    == CHOOSE k \in above : \A j \in above : k >= j
            IN  get_chunk_data(Eng, cc)[l] =
                    IF above = {} THEN LayerCell(bottom, cc, l) ELSE LayerCell(top, cc, l)

\* the chunk was read while the top layer was hidden over a painted cell, and
\* while a visible top layer had alpha 0 over a painted cell of the bottom
C6_Witness ==
    /\ last_op.op = "get_chunk_data"
    /\ Len(layers) >= 2
    /\ \E g \in ViewCoords :
          /\ g \in objs[layers[1]].modified_cells
          /\ g \in objs[layers[2]].modified_cells
          /\ layer_get_cell_data(objs[layers[2]], g)[4] = 0
          /\ layer_get_cell_data(objs[layers[1]], g)[4] > 0
          /\ objs[layers[2]].is_visible /\ objs[layers[1]].is_visible

\* C7  ChunkLayer.get_and_clear_dirty_chunks returns, each once, exactly the
\* chunks of the set_cell_data calls and of the delete_cell_data calls on a
\* modified coordinate made since the last drain, and leaves the dirty set
\* empty (so that a second call at once returns nothing).
C7_LayerDirtyDrain ==
    last_op.op = "layer.get_and_clear_dirty_chunks" =>
        /\ SeqRange(ret.dirty) = ret.written
        /\ Len(ret.dirty) = Cardinality(ret.written)
        /\ TheLayer.dirty_chunks = {}

\* a drain returned two chunks
C7_Witness ==
    /\ last_op.op = "layer.get_and_clear_dirty_chunks"
    /\ Len(ret.dirty) = 2

\* C8  ChunkEngine.get_and_clear_dirty_chunks returns, each once, the union
\* of the active layer's dirty set and the engine's dirty set, and empties
\* both.
C8_EngineDirtyDrain ==
    last_op.op = "get_and_clear_dirty_chunks" =>
        /\ ~last_op.raised
        /\ SeqRange(ret.dirty) = ret.layer_dirty \cup ret.extra
        /\ Len(ret.dirty) = Cardinality(ret.layer_dirty \cup ret.extra)
        /\ dirty_chunks = {}
        /\ ActiveOk(Eng) => objs[ActiveId(Eng)].dirty_chunks = {}

\* C9  Every cell of an allocated chunk of a layer that is not in
\* modified_cells holds the configured default cell color.
C9_UnmodifiedIsDefault ==
    \A id \in DOMAIN objs : \A cc \in DOMAIN objs[id].chunks : \A l \in LocalCoords :
        << cc[1] * ChunkSize + l[1], cc[2] * ChunkSize + l[2] >> \notin objs[id].modified_cells
            => objs[id].chunks[cc][l] = DefaultCellColor

\* C10  global_coord_to_chunk_coord: for every global coordinate and
\* chunk_size > 0 the local part is in [0, chunk_size) and
\* chunk * chunk_size + local is the global coordinate, in both components.
C10_ChunkPartition ==
    mapper.out # <<>> =>
        LET o == mapper.out
        IN  /\ 0 <= o[3] /\ o[3] < mapper.cs
            /\ 0 <= o[4] /\ o[4] < mapper.cs
            /\ o[1] * mapper.cs + o[3] = mapper.g[1]
            /\ o[2] * mapper.cs + o[4] = mapper.g[2]

\* a negative coordinate that is no multiple of the chunk size was mapped
C10_Witness ==
    /\ mapper.out # <<>>
    /\ mapper.g[1] < 0 /\ mapper.g[2] < 0
    /\ mapper.out[3] # 0 /\ mapper.out[4] # 0

\* C11  Save/load round trip: after load_map of a saved file into a new
\* engine the stack has as many layers as the saved one, and every layer
\* index holds the saved cell values and modified_cells.
C11_SaveLoadRoundTrip ==
    last_op.op = "load_map" =>
        /\ ~last_op.raised
        /\ Len(layers) = Len(file.saved.layers)
        /\ \A i \in 1..Len(layers) :
              /\ CellsOf(objs[layers[i]]) = file.saved.cells[file.saved.layers[i]]
              /\ objs[layers[i]].modified_cells = file.saved.modified[file.saved.layers[i]]

\* C12  ChunkLayer.delete_cell_data on a coordinate that is not in
\* modified_cells changes nothing: no chunk is allocated, dirty_chunks and
\* modified_cells stay as they are.
C12_DeleteUnmodifiedNoOp ==
    (scn.kind = "layer.delete_cell_data" /\ scn.pre.coord \notin scn.pre.layer.modified_cells) =>
        TheLayer = scn.pre.layer

\* delete_cell_data ran on an unmodified coordinate whose chunk does not
\* exist, in a layer that has modified cells
C12_Witness ==
    /\ scn.kind = "layer.delete_cell_data"
    /\ scn.pre.coord \notin scn.pre.layer.modified_cells
    /\ ChunkOf(scn.pre.coord) \notin DOMAIN scn.pre.layer.chunks
    /\ scn.pre.layer.modified_cells # {}

\* C13  In every layer, each coordinate in modified_cells lies in a chunk
\* that exists in the layer's chunks map.
C13_ModifiedInChunks ==
    \A id \in DOMAIN objs : \A g \in objs[id].modified_cells :
        ChunkOf(g) \in DOMAIN objs[id].chunks

\* a layer holds modified cells in two chunks
C13_Witness ==
    /\ last_op.op = "layer.set_cell_data"
    /\ Cardinality(ModifiedChunks(TheLayer)) = 2

\* C14  For an action made of several paint commands whose coordinate lists
\* overlap, one undo() puts every touched cell back to its color and its
\* modified_cells membership from before the action (the commands are undone
\* last first), and the redo() that follows puts every touched cell back to
\* what the action left (the commands are executed first first).
Touched(block) == UNION { SeqRange(block[k].global_coords) : k \in 1..Len(block) }
Overlapping(block) ==
    \E i, j \in 1..Len(block) :
        i < j /\ SeqRange(block[i].global_coords) \cap SeqRange(block[j].global_coords) # {}
CellsAsIn(block, snap) ==
    LET lid == block[1].layer
    IN  \A g \in Touched(block) :
            /\ layer_get_cell_data(objs[lid], g) = snap.cells[lid][g]
            /\ (g \in objs[lid].modified_cells) = (g \in snap.modified[lid])
C14_UndoReverseOrder ==
    /\ (scn.kind = "paint" /\ scn.stage = "undone" /\ Overlapping(redo_stack[Len(redo_stack)]))
           => CellsAsIn(redo_stack[Len(redo_stack)], scn.pre)
    /\ (scn.kind = "paint" /\ scn.stage = "redone" /\ Overlapping(undo_stack[Len(undo_stack)]))
           => CellsAsIn(undo_stack[Len(undo_stack)], scn.post)

\* a stroke of two commands that painted one cell in two colors was undone
\* and redone
C14_Witness ==
    /\ scn.kind = "paint" /\ scn.stage = "redone"
    /\ LET b == undo_stack[Len(undo_stack)]
       IN  /\ Len(b) = 2 /\ Overlapping(b)
           /\ b[1].new_color # b[2].new_color

\* C15  Reordering keeps the active layer: after a ReorderLayerCommand with
\* valid from_index # to_index is executed on a stack with a valid active
\* index, no exception was raised and active_layer_idx refers to the layer
\* object that was active before.
C15_ReorderKeepsActive ==
    (scn.kind = "reorder" /\ scn.stage \in {"open", "raised"}
        /\ PyIndexOk(scn.pre.layers, scn.pre.active)) =>
            /\ scn.stage = "open"
            /\ ActiveOk(Eng)
            /\ ActiveId(Eng) = PyGet(scn.pre.layers, scn.pre.active)

\* C16  A reorder with an out-of-range index or with from_index = to_index
\* raises nothing and leaves the layer list, the active index and the dirty
\* sets unchanged.
C16_InvalidReorderNoOp ==
    (scn.kind = "reorder_invalid" /\ scn.stage \in {"open", "raised"}) =>
        /\ scn.stage = "open"
        /\ layers = scn.pre.layers
        /\ active_layer_idx = scn.pre.active
        /\ dirty_chunks = scn.pre.dirty
        /\ \A id \in DOMAIN scn.pre.layer_dirty : objs[id].dirty_chunks = scn.pre.layer_dirty[id]

\* C17  After execute, undo and redo of a ReorderLayerCommand the layer
\* list is the list right after the first execute, and no layer object
\* occurs twice in it.
C17_ReorderRedo ==
    (scn.kind = "reorder" /\ scn.stage = "redone") =>
        /\ layers = scn.post.layers
        /\ Cardinality(SeqRange(layers)) = Len(layers)

\* C18  Whenever a layer's is_visible flag is flipped, by
\* ChunkEngine.toggle_visibility or by the layer panel entry, the next
\* get_and_clear_dirty_chunks returns every chunk that holds one of that
\* layer's modified cells.
C18_ToggleMarksDirty ==
    (scn.kind = "toggle" /\ scn.stage = "drained") =>
        /\ ~last_op.raised
        /\ scn.pre.chunks \subseteq SeqRange(ret.dirty)

C20_UndoRemovesEmptyLayer ==
    undo_stack # <<>> =>
        LET block == undo_stack[Len(undo_stack)]
            removed == UndoRemoved(Eng, block, Len(block))
        IN  \A k \in 1..Len(removed) : removed[k] = {}

\* C21  Constructing and executing an EraseCellCommand raises nothing; it
\* only removes coordinates from the active layer's modified_cells and
\* leaves the cells that were not modified as they were; the undo of the
\* action restores every layer's cell values and modified_cells.
C21_EraseRoundTrip ==
    (scn.kind = "erase" /\ scn.stage # "none"
        /\ PyIndexOk(scn.pre.layers, scn.pre.active)) =>
        LET lid == PyGet(scn.pre.layers, scn.pre.active)
        IN  /\ scn.stage # "raised"
            /\ scn.post.modified[lid] \subseteq scn.pre.modified[lid]
            /\ \A g \in GlobalCoords :
                  g \notin scn.pre.modified[lid] =>
                      /\ g \notin scn.post.modified[lid]
                      /\ scn.post.cells[lid][g] = scn.pre.cells[lid][g]
            /\ scn.stage = "undone" =>
                  /\ Snap(Eng).cells = scn.pre.cells
                  /\ Snap(Eng).modified = scn.pre.modified

\* C22  No exception leaves load_map when the file has a bad magic number,
\* an unsupported version or is truncated.
C22_LoadErrorsHandled ==
    scn.kind = "load" => ~last_op.raised

\* C23 (as stated)  After load_map of a file with a bad magic number or an
\* unsupported version the engine is in its post-reset state.
C23_HeaderErrorDestroysMap ==
    (scn.kind = "load" /\ scn.stage \in {"bad_magic", "bad_version"}) =>
        Snap(Eng) = scn.post

\* C23  load_map checks magic and version before it clears the map: a file
\* with a bad magic number or an unsupported version returns without an
\* exception and leaves the map as it was; a file truncated after a valid
\* header leaves none of the previous layers in the stack.
C23_HeaderErrorKeepsMap ==
    scn.kind = "load" =>
        /\ scn.stage \in {"bad_magic", "bad_version"} =>
              /\ ~last_op.raised
              /\ Snap(Eng) = scn.pre
        /\ (scn.stage = "truncated" /\ scn.n >= 2) =>
              /\ SeqRange(layers) \cap SeqRange(scn.pre.layers) = {}
              /\ \A id \in SeqRange(scn.pre.layers) :
                    ModifiedChunks(objs[id]) \subseteq dirty_chunks

\* a file with a bad magic number was loaded over a map of two painted layers
C23_Witness ==
    /\ scn.kind = "load" /\ scn.stage = "bad_magic"
    /\ Len(scn.pre.layers) = 2
    /\ \A id \in SeqRange(scn.pre.layers) : scn.pre.modified[id] # {}

\* C24  Every tool drag gesture is finalized: whenever no mouse button is
\* held, the HistoryManager command buffer is empty.
C24_GestureFinalized ==
    handler.buttons = {} => command_buffer = <<>>

\* C25  Reads never register as edits: a get_cell_data or get_chunk_data
\* call (on one layer or composited) leaves every layer's dirty_chunks and
\* modified_cells and the engine's dirty set as they were.
ReadOps == {"get_cell_data", "get_layer_chunk_data", "get_chunk_data"}
C25_ReadsNotEdits ==
    [][ last_op'.op \in ReadOps =>
          /\ dirty_chunks' = dirty_chunks
          /\ Len(objs') = Len(objs)
          /\ \A id \in DOMAIN objs :
                /\ objs'[id].dirty_chunks = objs[id].dirty_chunks
                /\ objs'[id].modified_cells = objs[id].modified_cells ]_vars

\* a read has allocated a chunk in a layer that has a modified cell and a
\* dirty chunk elsewhere
C25_Witness ==
    /\ last_op.op \in ReadOps
    /\ \E id \in SeqRange(layers) : \E cc \in DOMAIN objs[id].chunks :
          /\ cc \notin ModifiedChunks(objs[id])
          /\ cc \notin objs[id].dirty_chunks
          /\ objs[id].dirty_chunks # {}

\* C26  Dirty tracking is complete: every chunk whose composited data
\* changed since the previous get_and_clear_dirty_chunks is in the result
\* of the next one, so after update_and_render_chunks every chunk buffer
\* holds the composited data of its chunk.
C26_DirtyTrackingComplete ==
    (last_op.op = "update_and_render_chunks" /\ ~last_op.raised) =>
        \A cc \in DOMAIN chunk_buffers : chunk_buffers[cc] = get_chunk_data(Eng, cc)

\* C27  Auto-generated layer names stay unique: no two layers in the stack
\* have the same desc.
C27_UniqueNames ==
    \A i, j \in 1..Len(layers) :
        i # j => objs[layers[i]].desc # objs[layers[j]].desc

\* C28  Undo is last-in-first-out over all executed commands: after an
\* undo() that reverted an action (the action is on the redo stack) the
\* command buffer is empty.
C28_UndoWithEmptyBuffer ==
    (last_op.op = "undo" /\ redo_stack # <<>>) => command_buffer = <<>>

\* C29  redo() followed immediately by undo() is the identity on the map:
\* in every state with a non-empty redo stack, neither call raises and the
\* layer list, the cell values and modified_cells of the layers in the
\* stack, active_layer_idx and name_cnt afterwards equal those before.
MapOf(E) ==
    [ layers |-> E.layers, active |-> E.active, name_cnt |-> E.name_cnt,
      cells |-> [k \in 1..Len(E.layers) |-> CellsOf(E.objs[E.layers[k]])],
      modified |-> [k \in 1..Len(E.layers) |-> E.objs[E.layers[k]].modified_cells] ]

C29_RedoUndoIdentity ==
    redo_stack # <<>> =>
        LET r == history_redo(Eng, undo_stack, redo_stack)
            u == history_undo(r.e, r.undo, r.redo)
        IN  /\ r.ok
            /\ u.ok
            /\ MapOf(u.e) = MapOf(Eng)

\* C30  A PaintCellCommand always acts on one layer: a redo() of an action
\* made of paint commands changes no layer object other than the layers
\* those commands were constructed on (the layers their undo restores).
PaintBlock(block) == \A k \in 1..Len(block) : block[k].kind = "paint"

C30_PaintActsOnOwnLayer ==
    [][ (last_op'.op = "redo" /\ redo_stack # <<>> /\ PaintBlock(redo_stack[Len(redo_stack)]))
            => \A id \in 1..Len(objs) :
                   objs'[id] # objs[id]
                       => \E k \in 1..Len(redo_stack[Len(redo_stack)]) :
                              redo_stack[Len(redo_stack)][k].layer = id ]_vars

====
